---- MODULE Spec2Model ----
(***************************************************************************)
(* State-machine model of the tokenfactory_core contract                   *)
(* (contracts/tokenfactory_core/src/contract.rs, state.rs, msg.rs).        *)
(*                                                                         *)
(* The contract persists one Config record (manager, allowed_mint_addresses*)
(* and denoms, both Vec<String>) and answers instantiate / execute / query *)
(* entry points.  Every entry point is one atomic step: the chain runs one *)
(* message to completion, and an Err result discards the storage writes of *)
(* that message.  The call and its result stay observable in `last` until  *)
(* the response is handed back (Reply); only then is the next message run. *)
(*                                                                         *)
(* helpers.rs and error.rs are not part of the available sources; the      *)
(* helpers is_contract_manager, is_whitelisted and                         *)
(* mint_factory_token_messages and the error names are modelled from the   *)
(* specification text (AuthorizationGuard, MintCoordinator, error kinds).  *)
(* The "denoms" response attribute of execute_mint is built by             *)
(* pretty_denoms_output, whose format is unknown; that attribute is left   *)
(* out of the modelled attribute list.                                     *)
(***************************************************************************)
EXTENDS Naturals, Sequences, FiniteSets, Bags, TLC

VARIABLES
    phase,      \* "uninit" until instantiate succeeded, then "ready"
    config,     \* the Config stored under STATE (NoConfig while uninit)
    prev,       \* the stored Config as it was before the last entry-point call
    last,       \* the entry-point call just run, its input and its result
                \* (NoCall once its response was handed back)
    revoked     \* history: the addresses a successful RemoveWhitelist listed
                \* and no successful AddWhitelist has listed since

vars == <<phase, config, prev, last, revoked>>

----------------------------------------------------------------------------
(* Bounds of the model *)

\* longest address / denom list of an InstantiateMsg or ExecuteMsg
MaxLen == 2
\* longest coin list of a Mint or Burn call under Spec
MaxFunds == 1
\* longest coin list of a Mint or Burn call under SpecCoins
MaxCoins == 2
\* largest coin amount
MaxAmount == 1

----------------------------------------------------------------------------
(* Input universes *)

Addrs == {"addr1", "addr2"}

InvalidAddr == ""

ContractAddr == "contract0"

FactoryPrefix == "factory/"

DenomStrs == {"factory/juno1abc/test", "factory/juno1abc/t2", "uatom"}

SeqsUpTo(S, n) == UNION {[1..k -> S] : k \in 0..n}

AddrLists == SeqsUpTo(Addrs, MaxLen)

DenomLists == SeqsUpTo(DenomStrs, MaxLen)

Coin == [denom : DenomStrs, amount : 0..MaxAmount]

FundLists == SeqsUpTo(Coin, MaxFunds)

CoinLists == SeqsUpTo(Coin, MaxCoins)

None == "<none>"

NoConfig == [manager |-> None, allowed_mint_addresses |-> <<>>, denoms |-> <<>>]

NoMsg == [kind |-> "none"]

----------------------------------------------------------------------------
(* Vec helpers of the Rust standard library, as the handlers use them *)

Contains(v, x) == \E i \in 1..Len(v) : v[i] = x

\* Faulty variant of Retain: the closure keeps the entries equal to x.
RetainEqual(v, x) == SelectSeq(v, LAMBDA a : a = x)

\* Faulty variant of Retain: only the first entry equal to x is taken out.
RemoveFirst(v, x) ==
    IF \E i \in 1..Len(v) : v[i] = x
    THEN LET k == CHOOSE i \in 1..Len(v) : v[i] = x /\ \A j \in 1..(i - 1) : v[j] # x
         IN  SubSeq(v, 1, k - 1) \o SubSeq(v, k + 1, Len(v))
    ELSE v

Retain(v, x) == SelectSeq(v, LAMBDA a : a # x)

StartsWith(s, p) == Len(s) >= Len(p) /\ SubSeq(s, 1, Len(p)) = p

\* Faulty variant of PushNew: pushes without the contains test.
RECURSIVE PushAlways(_, _)
PushAlways(updated, news) ==
    IF news = <<>> THEN updated
    ELSE PushAlways(Append(updated, Head(news)), Tail(news))

RECURSIVE PushNew(_, _)
PushNew(updated, news) ==
    IF news = <<>> THEN updated
    ELSE PushNew(IF ~Contains(updated, Head(news)) THEN Append(updated, Head(news))
                 ELSE updated,
                 Tail(news))

RECURSIVE RetainAll(_, _)
RetainAll(updated, removes) ==
    IF removes = <<>> THEN updated
    ELSE RetainAll(Retain(updated, Head(removes)), Tail(removes))

----------------------------------------------------------------------------
(* Results of an entry point *)

\* writes: the storage keys the call wrote before it returned, in order
Ok(cfg, attrs, msgs) ==
    [err |-> "", config |-> cfg, attributes |-> attrs, messages |-> msgs,
     data |-> NoConfig, writes |-> <<>>]

Err(e, cfg) ==
    [err |-> e, config |-> cfg, attributes |-> <<>>, messages |-> <<>>,
     data |-> NoConfig, writes |-> <<>>]

\* res, reached after the call wrote the storage keys `keys`
Wrote(keys, res) == [res EXCEPT !.writes = keys]

ContractInfoKey == "contract_info"

ConfigKey == "config"

MintTokens(denom, amount, to) ==
    [type |-> "MintTokens", denom |-> denom, amount |-> amount,
     mint_to_address |-> to]

BurnTokens(denom, amount, from) ==
    [type |-> "BurnTokens", denom |-> denom, amount |-> amount,
     burn_from_address |-> from]

ChangeAdmin(denom, new_admin) ==
    [type |-> "ChangeAdmin", denom |-> denom, new_admin_address |-> new_admin]

BankSend(to, amount) ==
    [type |-> "Send", to_address |-> to, amount |-> amount]

----------------------------------------------------------------------------
(* helpers.rs (modelled from the specification) *)

is_contract_manager(state, sender) ==
    IF sender = state.manager THEN "" ELSE "Unauthorized"

is_whitelisted(state, sender) ==
    IF Contains(state.allowed_mint_addresses, sender) THEN "" ELSE "Unauthorized"

RECURSIVE mint_factory_token_messages(_, _)
mint_factory_token_messages(address, coins) ==
    IF coins = <<>> THEN <<>>
    ELSE <<MintTokens(Head(coins).denom, Head(coins).amount, address)>>
         \o mint_factory_token_messages(address, Tail(coins))

----------------------------------------------------------------------------
(* contract.rs: instantiate *)

addr_validate(a) == a \in Addrs

\* Faulty variant of instantiate: only the first denom is tested for the prefix.
instantiate_first_denom_only(info, msg) ==
    IF msg.denoms # <<>> /\ ~StartsWith(msg.denoms[1], FactoryPrefix)
    THEN Err("InvalidDenom", NoConfig)
    ELSE LET manager == IF msg.manager = None THEN info.sender ELSE msg.manager
         IN  IF ~addr_validate(manager)
             THEN Err("StdError", NoConfig)
             ELSE Ok([manager |-> manager,
                      allowed_mint_addresses |-> msg.allowed_mint_addresses,
                      denoms |-> msg.denoms],
                     << <<"method", "instantiate">> >>, <<>>)

\* Faulty variant of instantiate: the manager is always the sender.
instantiate_sender_manager(info, msg) ==
    IF \E i \in 1..Len(msg.denoms) : ~StartsWith(msg.denoms[i], FactoryPrefix)
    THEN Err("InvalidDenom", NoConfig)
    ELSE LET manager == IF msg.manager = None THEN info.sender ELSE msg.manager
         IN  IF ~addr_validate(manager)
             THEN Err("StdError", NoConfig)
             ELSE Ok([manager |-> info.sender,
                      allowed_mint_addresses |-> msg.allowed_mint_addresses,
                      denoms |-> msg.denoms],
                     << <<"method", "instantiate">> >>, <<>>)

instantiate(info, msg) ==
    \* set_contract_version runs first, whatever follows
    IF \E i \in 1..Len(msg.denoms) : ~StartsWith(msg.denoms[i], FactoryPrefix)
    THEN Wrote(<<ContractInfoKey>>, Err("InvalidDenom", NoConfig))
    ELSE LET manager == IF msg.manager = None THEN info.sender ELSE msg.manager
         IN  IF ~addr_validate(manager)
             THEN Wrote(<<ContractInfoKey>>, Err("StdError", NoConfig))
             ELSE Wrote(<<ContractInfoKey, ConfigKey>>,
                        Ok([manager |-> manager,
                            allowed_mint_addresses |-> msg.allowed_mint_addresses,
                            denoms |-> msg.denoms],
                           << <<"method", "instantiate">> >>, <<>>))

----------------------------------------------------------------------------
(* contract.rs: execute, the four branches handled inline *)

execute_add_whitelist(state, info, addresses) ==
    IF is_contract_manager(state, info.sender) # ""
    THEN Err(is_contract_manager(state, info.sender), state)
    ELSE LET updated == PushNew(state.allowed_mint_addresses, addresses)
         IN  Wrote(<<ConfigKey>>,
                   Ok([state EXCEPT !.allowed_mint_addresses = updated],
                      << <<"method", "add_whitelist">> >>, <<>>))

execute_remove_whitelist(state, info, addresses) ==
    IF is_contract_manager(state, info.sender) # ""
    THEN Err(is_contract_manager(state, info.sender), state)
    ELSE LET updated == RetainAll(state.allowed_mint_addresses, addresses)
         IN  Wrote(<<ConfigKey>>,
                   Ok([state EXCEPT !.allowed_mint_addresses = updated],
                      << <<"method", "remove_whitelist">> >>, <<>>))

\* Faulty variant of execute_add_denom: the result of is_contract_manager is dropped.
execute_add_denom_unguarded(state, info, denoms) ==
    LET updated_denoms == PushNew(state.denoms, denoms)
    IN  Ok([state EXCEPT !.denoms = updated_denoms],
           << <<"method", "add_denom">> >>, <<>>)

\* Faulty variant of execute_add_denom: denoms without the factory/ prefix are
\* skipped, as instantiate's rule would have it.
execute_add_denom_prefix_only(state, info, denoms) ==
    IF is_contract_manager(state, info.sender) # ""
    THEN Err(is_contract_manager(state, info.sender), state)
    ELSE LET updated_denoms ==
                 PushNew(state.denoms,
                         SelectSeq(denoms, LAMBDA d : StartsWith(d, FactoryPrefix)))
         IN  Wrote(<<ConfigKey>>,
                   Ok([state EXCEPT !.denoms = updated_denoms],
                      << <<"method", "add_denom">> >>, <<>>))

execute_add_denom(state, info, denoms) ==
    IF is_contract_manager(state, info.sender) # ""
    THEN Err(is_contract_manager(state, info.sender), state)
    ELSE LET updated_denoms == PushNew(state.denoms, denoms)
         IN  Wrote(<<ConfigKey>>,
                   Ok([state EXCEPT !.denoms = updated_denoms],
                      << <<"method", "add_denom">> >>, <<>>))

\* Faulty variant of execute_remove_denom: the filtered list is written to the
\* field of the branch it was copied from.
execute_remove_denom_wrong_field(state, info, denoms) ==
    IF is_contract_manager(state, info.sender) # ""
    THEN Err(is_contract_manager(state, info.sender), state)
    ELSE LET updated_denoms == RetainAll(state.denoms, denoms)
         IN  Wrote(<<ConfigKey>>,
                   Ok([state EXCEPT !.allowed_mint_addresses = updated_denoms],
                      << <<"method", "remove_denom">> >>, <<>>))

execute_remove_denom(state, info, denoms) ==
    IF is_contract_manager(state, info.sender) # ""
    THEN Err(is_contract_manager(state, info.sender), state)
    ELSE LET updated_denoms == RetainAll(state.denoms, denoms)
         IN  Wrote(<<ConfigKey>>,
                   Ok([state EXCEPT !.denoms = updated_denoms],
                      << <<"method", "remove_denom">> >>, <<>>))

----------------------------------------------------------------------------
(* contract.rs: execute_transfer_admin *)

\* Index of the first occurrence of x in v (0 when absent).
Position(v, x) ==
    IF Contains(v, x) THEN CHOOSE i \in 1..Len(v) : v[i] = x /\ \A j \in 1..(i - 1) : v[j] # x
    ELSE 0

\* Faulty variant of execute_transfer_admin: the new admin also becomes the
\* contract's manager.
execute_transfer_admin_sets_manager(state, info, denom, new_addr) ==
    IF is_contract_manager(state, info.sender) # ""
    THEN Err(is_contract_manager(state, info.sender), state)
    ELSE LET updated_state == SelectSeq(state.denoms, LAMBDA d : d # denom)
         IN  Ok([state EXCEPT !.denoms = updated_state, !.manager = new_addr],
                << <<"method", "execute_transfer_admin">>, <<"new_admin", new_addr>> >>,
                <<ChangeAdmin(denom, new_addr)>>)

\* Faulty variant of execute_transfer_admin: removes only the entry found.
execute_transfer_admin_remove_one(state, info, denom, new_addr) ==
    IF is_contract_manager(state, info.sender) # ""
    THEN Err(is_contract_manager(state, info.sender), state)
    ELSE LET k == Position(state.denoms, denom)
             updated_state == SubSeq(state.denoms, 1, k - 1)
                              \o SubSeq(state.denoms, k + 1, Len(state.denoms))
         IN  Ok(IF k > 0 THEN [state EXCEPT !.denoms = updated_state] ELSE state,
                << <<"method", "execute_transfer_admin">>, <<"new_admin", new_addr>> >>,
                <<ChangeAdmin(denom, new_addr)>>)

\* Faulty variant of execute_transfer_admin: the ChangeAdmin message is built
\* only when the denom was tracked.
execute_transfer_admin_msg_if_found(state, info, denom, new_addr) ==
    IF is_contract_manager(state, info.sender) # ""
    THEN Err(is_contract_manager(state, info.sender), state)
    ELSE LET found == \E i \in 1..Len(state.denoms) : state.denoms[i] = denom
             updated_state == SelectSeq(state.denoms, LAMBDA d : d # denom)
         IN  Ok(IF found THEN [state EXCEPT !.denoms = updated_state] ELSE state,
                << <<"method", "execute_transfer_admin">>, <<"new_admin", new_addr>> >>,
                IF found THEN <<ChangeAdmin(denom, new_addr)>> ELSE <<>>)

execute_transfer_admin(state, info, denom, new_addr) ==
    IF is_contract_manager(state, info.sender) # ""
    THEN Err(is_contract_manager(state, info.sender), state)
    ELSE LET found == \E i \in 1..Len(state.denoms) : state.denoms[i] = denom
             updated_state == SelectSeq(state.denoms, LAMBDA d : d # denom)
             msg == ChangeAdmin(denom, new_addr)
         IN  Wrote(IF found THEN <<ConfigKey>> ELSE <<>>,
                   Ok(IF found THEN [state EXCEPT !.denoms = updated_state] ELSE state,
                      << <<"method", "execute_transfer_admin">>,
                         <<"new_admin", new_addr>> >>,
                      <<msg>>))

----------------------------------------------------------------------------
(* contract.rs: execute_mint *)

\* Faulty variant of execute_mint: the result of is_whitelisted is dropped.
execute_mint_unguarded(state, info, address, denoms) ==
    Ok(state,
       << <<"method", "execute_mint">>, <<"to_address", address>> >>,
       mint_factory_token_messages(address, denoms))

\* Faulty variant of execute_mint: the manager may mint as well.
execute_mint_manager_too(state, info, address, denoms) ==
    IF is_whitelisted(state, info.sender) # "" /\ is_contract_manager(state, info.sender) # ""
    THEN Err(is_whitelisted(state, info.sender), state)
    ELSE Ok(state,
            << <<"method", "execute_mint">>, <<"to_address", address>> >>,
            mint_factory_token_messages(address, denoms))

\* Faulty variant of execute_mint: zero-amount coins are skipped.
execute_mint_skip_zero(state, info, address, denoms) ==
    IF is_whitelisted(state, info.sender) # ""
    THEN Err(is_whitelisted(state, info.sender), state)
    ELSE Ok(state,
            << <<"method", "execute_mint">>, <<"to_address", address>> >>,
            mint_factory_token_messages(address,
                                        SelectSeq(denoms, LAMBDA c : c.amount # 0)))

execute_mint(state, info, address, denoms) ==
    IF is_whitelisted(state, info.sender) # ""
    THEN Err(is_whitelisted(state, info.sender), state)
    ELSE LET mint_msgs == mint_factory_token_messages(address, denoms)
         IN  Ok(state,
                << <<"method", "execute_mint">>, <<"to_address", address>> >>,
                mint_msgs)

----------------------------------------------------------------------------
(* contract.rs: execute_burn *)

\* Faulty variant of PartitionFunds: a coin whose denom was already seen is
\* merged away instead of being kept as its own entry.
RECURSIVE PartitionFundsDedup(_, _)
PartitionFundsDedup(funds, denoms) ==
    IF funds = <<>> THEN [factory_denoms |-> <<>>, send_back |-> <<>>]
    ELSE LET n == Len(funds)
             coin == funds[n]
             sofar == PartitionFundsDedup(SubSeq(funds, 1, n - 1), denoms)
         IN  IF \E i \in 1..(n - 1) : funds[i].denom = coin.denom
             THEN sofar
             ELSE IF \E i \in 1..Len(denoms) : denoms[i] = coin.denom
                  THEN [sofar EXCEPT !.factory_denoms = Append(@, coin)]
                  ELSE [sofar EXCEPT !.send_back = Append(@, coin)]

\* Iterator::partition over info.funds: each coin in order is pushed to the
\* left Vec when the predicate holds and to the right Vec otherwise.
RECURSIVE PartitionFunds(_, _)
PartitionFunds(funds, denoms) ==
    IF funds = <<>> THEN [factory_denoms |-> <<>>, send_back |-> <<>>]
    ELSE LET n == Len(funds)
             coin == funds[n]
             sofar == PartitionFunds(SubSeq(funds, 1, n - 1), denoms)
         IN  IF \E i \in 1..Len(denoms) : denoms[i] = coin.denom
             THEN [sofar EXCEPT !.factory_denoms = Append(@, coin)]
             ELSE [sofar EXCEPT !.send_back = Append(@, coin)]

BurnMsgs(factory_denoms, contract_address) ==
    [i \in 1..Len(factory_denoms) |->
        BurnTokens(factory_denoms[i].denom, factory_denoms[i].amount, contract_address)]

\* Faulty variant of execute_burn: no emptiness test of info.funds.
execute_burn_no_funds_check(state, contract_address, info) ==
    LET parts == PartitionFunds(info.funds, state.denoms)
    IN  Ok(state,
           << <<"method", "execute_burn">> >>,
           <<BankSend(info.sender, parts.send_back)>>
           \o BurnMsgs(parts.factory_denoms, contract_address))

\* Faulty variant of execute_burn: an empty send_back produces no BankMsg.
execute_burn_skip_empty_send(state, contract_address, info) ==
    IF info.funds = <<>>
    THEN Err("InvalidFunds", state)
    ELSE LET parts == PartitionFunds(info.funds, state.denoms)
         IN  Ok(state,
                << <<"method", "execute_burn">> >>,
                (IF parts.send_back = <<>> THEN <<>>
                 ELSE <<BankSend(info.sender, parts.send_back)>>)
                \o BurnMsgs(parts.factory_denoms, contract_address))

execute_burn(state, contract_address, info) ==
    IF info.funds = <<>>
    THEN Err("InvalidFunds", state)
    ELSE LET parts == PartitionFunds(info.funds, state.denoms)
             burn_msgs == BurnMsgs(parts.factory_denoms, contract_address)
             bank_return_msg == BankSend(info.sender, parts.send_back)
         IN  Ok(state,
                << <<"method", "execute_burn">> >>,
                <<bank_return_msg>> \o burn_msgs)

----------------------------------------------------------------------------
(* contract.rs: query *)

\* Faulty variant of query: answers with an empty Config instead of the stored one.
query_default(state) == [Ok(state, <<>>, <<>>) EXCEPT !.data = NoConfig]

query(state) == [Ok(state, <<>>, <<>>) EXCEPT !.data = state]

----------------------------------------------------------------------------
(* The state machine: one action per entry-point call *)

Call(op, sender, msg, funds, res) ==
    [op |-> op, sender |-> sender, msg |-> msg, funds |-> funds,
     err |-> res.err, attributes |-> res.attributes, messages |-> res.messages,
     data |-> res.data, writes |-> res.writes]

NoCall == Call("none", None, NoMsg, <<>>, Ok(NoConfig, <<>>, <<>>))

Init ==
    /\ phase = "uninit"
    /\ config = NoConfig
    /\ prev = NoConfig
    /\ last = NoCall
    /\ revoked = {}

\* The contract exists and no call is in progress.
Ready == phase = "ready" /\ last = NoCall

\* revoked after the call op(msg) with result res
Revoked(op, msg, res) ==
    IF res.err = "" /\ op = "RemoveWhitelist"
    THEN revoked \cup {msg.addresses[i] : i \in 1..Len(msg.addresses)}
    ELSE IF res.err = "" /\ op = "AddWhitelist"
         THEN revoked \ {msg.addresses[i] : i \in 1..Len(msg.addresses)}
         ELSE revoked

\* An execute or query call: the stored Config becomes the result's Config
\* (an Err result carries the Config it loaded, nothing is written).
Step(op, sender, msg, funds, res) ==
    /\ prev' = config
    /\ config' = res.config
    /\ last' = Call(op, sender, msg, funds, res)
    /\ revoked' = Revoked(op, msg, res)
    /\ UNCHANGED phase

Instantiate ==
    /\ phase = "uninit"
    /\ last = NoCall
    /\ \E sender \in Addrs, manager \in Addrs \cup {None, InvalidAddr},
          allowed \in AddrLists, denoms \in DenomLists :
           LET msg == [manager |-> manager, allowed_mint_addresses |-> allowed,
                       denoms |-> denoms]
               res == instantiate([sender |-> sender, funds |-> <<>>], msg)
           IN  /\ prev' = config
               /\ config' = res.config
               /\ phase' = IF res.err = "" THEN "ready" ELSE "uninit"
               /\ last' = Call("Instantiate", sender, msg, <<>>, res)
               /\ revoked' = {}

BurnOf(lists) ==
    /\ Ready
    /\ \E sender \in Addrs, funds \in lists :
           Step("Burn", sender, NoMsg, funds,
                execute_burn(config, ContractAddr, [sender |-> sender, funds |-> funds]))

MintOf(lists) ==
    /\ Ready
    /\ \E sender \in Addrs, address \in Addrs, denom \in lists :
           Step("Mint", sender, [address |-> address, denom |-> denom], <<>>,
                execute_mint(config, [sender |-> sender, funds |-> <<>>], address, denom))

Burn == BurnOf(FundLists)

Mint == MintOf(FundLists)

BurnCoins == BurnOf(CoinLists)

MintCoins == MintOf(CoinLists)

TransferAdmin ==
    /\ Ready
    /\ \E sender \in Addrs, denom \in DenomStrs, new_address \in Addrs :
           Step("TransferAdmin", sender, [denom |-> denom, new_address |-> new_address], <<>>,
                execute_transfer_admin(config, [sender |-> sender, funds |-> <<>>],
                                       denom, new_address))

AddWhitelist ==
    /\ Ready
    /\ \E sender \in Addrs, addresses \in AddrLists :
           Step("AddWhitelist", sender, [addresses |-> addresses], <<>>,
                execute_add_whitelist(config, [sender |-> sender, funds |-> <<>>], addresses))

RemoveWhitelist ==
    /\ Ready
    /\ \E sender \in Addrs, addresses \in AddrLists :
           Step("RemoveWhitelist", sender, [addresses |-> addresses], <<>>,
                execute_remove_whitelist(config, [sender |-> sender, funds |-> <<>>], addresses))

AddDenom ==
    /\ Ready
    /\ \E sender \in Addrs, denoms \in DenomLists :
           Step("AddDenom", sender, [denoms |-> denoms], <<>>,
                execute_add_denom(config, [sender |-> sender, funds |-> <<>>], denoms))

RemoveDenom ==
    /\ Ready
    /\ \E sender \in Addrs, denoms \in DenomLists :
           Step("RemoveDenom", sender, [denoms |-> denoms], <<>>,
                execute_remove_denom(config, [sender |-> sender, funds |-> <<>>], denoms))

GetConfig ==
    /\ Ready
    /\ Step("GetConfig", None, NoMsg, <<>>, query(config))

\* The response (or error) of the call just run goes back to its caller; the
\* contract is ready for the next message.
Reply ==
    /\ last # NoCall
    /\ last' = NoCall
    /\ prev' = config
    /\ UNCHANGED <<phase, config, revoked>>

Next ==
    \/ Instantiate
    \/ Burn
    \/ Mint
    \/ TransferAdmin
    \/ AddWhitelist
    \/ RemoveWhitelist
    \/ AddDenom
    \/ RemoveDenom
    \/ GetConfig
    \/ Reply

Spec == Init /\ [][Next]_vars

\* Burn and Mint with longer coin lists, over the configurations instantiate
\* stores.

NextCoins ==
    \/ Instantiate
    \/ BurnCoins
    \/ MintCoins
    \/ Reply

SpecCoins == Init /\ [][NextCoins]_vars

TypeOK ==
    /\ phase \in {"uninit", "ready"}
    /\ last.err \in {"", "Unauthorized", "InvalidFunds", "InvalidDenom", "StdError"}

----------------------------------------------------------------------------
(* Properties *)

ManagerOnly == {"AddWhitelist", "RemoveWhitelist", "AddDenom", "RemoveDenom", "TransferAdmin"}

Count(v, x) == Cardinality({i \in 1..Len(v) : v[i] = x})

NoDuplicates(v) == \A i, j \in 1..Len(v) : v[i] = v[j] => i = j

BagOf(v) == [x \in {v[i] : i \in 1..Len(v)} |-> Count(v, x)]

\* w is v with every entry equal to x taken out, the others in their order
IsWithout(w, v, x) ==
    LET keep == {i \in 1..Len(v) : v[i] # x}
    IN  /\ Len(w) = Cardinality(keep)
        /\ \A i \in keep : w[Cardinality({j \in keep : j <= i})] = v[i]

\* w holds exactly the entries of v at the indices in keep, in their order
IsSelection(w, v, keep) ==
    /\ Len(w) = Cardinality(keep)
    /\ \A i \in keep : w[Cardinality({j \in keep : j <= i})] = v[i]

Managed(funds, denoms) == {i \in 1..Len(funds) : Contains(denoms, funds[i].denom)}

Unmanaged(funds, denoms) == {i \in 1..Len(funds) : ~Contains(denoms, funds[i].denom)}

OfType(msgs, t) == SelectSeq(msgs, LAMBDA m : m.type = t)

\* C1: a manager-only operation called by anyone but the manager fails with
\* Unauthorized, leaves manager, allowed_mint_addresses and denoms as they
\* were and emits no message.
C1_NonManagerRefused ==
    (phase = "ready" /\ last.op \in ManagerOnly /\ last.sender # prev.manager)
        => /\ last.err = "Unauthorized"
           /\ config = prev
           /\ last.messages = <<>>

C1_Witness ==
    /\ last.op = "AddDenom"
    /\ last.sender # prev.manager
    /\ \E i \in 1..Len(last.msg.denoms) : ~Contains(prev.denoms, last.msg.denoms[i])

\* C2: Mint by a caller that is no element of allowed_mint_addresses fails
\* with Unauthorized and emits no message.
C2_MintNotWhitelisted ==
    (last.op = "Mint" /\ ~Contains(prev.allowed_mint_addresses, last.sender))
        => /\ last.err = "Unauthorized"
           /\ last.messages = <<>>

C2_Witness ==
    /\ last.op = "Mint"
    /\ ~Contains(prev.allowed_mint_addresses, last.sender)
    /\ last.sender = prev.manager
    /\ last.msg.denom # <<>>

\* C3: Burn's partition of non-empty funds F: a coin is in factory_denoms iff
\* its denom is in config.denoms and in send_back otherwise, both keep the
\* order of F, and together they are F as a multiset.
C3_PartitionExact ==
    (last.op = "Burn" /\ last.funds # <<>>)
        => LET parts == PartitionFunds(last.funds, prev.denoms)
           IN  /\ IsSelection(parts.factory_denoms, last.funds,
                              Managed(last.funds, prev.denoms))
               /\ IsSelection(parts.send_back, last.funds,
                              Unmanaged(last.funds, prev.denoms))
               /\ \A i \in 1..Len(parts.factory_denoms) :
                      Contains(prev.denoms, parts.factory_denoms[i].denom)
               /\ \A i \in 1..Len(parts.send_back) :
                      ~Contains(prev.denoms, parts.send_back[i].denom)
               /\ BagOf(parts.factory_denoms) (+) BagOf(parts.send_back)
                      = BagOf(last.funds)

C3_Witness ==
    /\ last.op = "Burn"
    /\ Len(last.funds) = 2
    /\ last.funds[1] = last.funds[2]
    /\ Contains(prev.denoms, last.funds[1].denom)

\* C4: Burn with non-empty funds succeeds for any caller and emits one
\* BurnTokens per managed coin (its denom and amount, burnt from the contract's
\* own address) and exactly one bank Send to the caller carrying the whole
\* unmanaged partition, also when that partition is empty.
C4_BurnMessages ==
    (last.op = "Burn" /\ last.funds # <<>>)
        => LET burns == OfType(last.messages, "BurnTokens")
               sends == OfType(last.messages, "Send")
               managed == Managed(last.funds, prev.denoms)
           IN  /\ last.err = ""
               /\ Len(last.messages) = Len(burns) + Len(sends)
               /\ Len(sends) = 1
               /\ sends[1].to_address = last.sender
               /\ IsSelection(sends[1].amount, last.funds,
                              Unmanaged(last.funds, prev.denoms))
               /\ Len(burns) = Cardinality(managed)
               /\ \A i \in managed :
                      burns[Cardinality({j \in managed : j <= i})]
                          = BurnTokens(last.funds[i].denom, last.funds[i].amount,
                                       ContractAddr)

C4_Witness ==
    /\ last.op = "Burn"
    /\ Len(last.funds) = 2
    /\ Unmanaged(last.funds, prev.denoms) = {}
    /\ last.sender # prev.manager
    /\ ~Contains(prev.allowed_mint_addresses, last.sender)

\* C5: Burn with no attached funds fails with InvalidFunds for every caller
\* and configuration and emits no message.
C5_BurnEmptyFunds ==
    (last.op = "Burn" /\ last.funds = <<>>)
        => /\ last.err = "InvalidFunds"
           /\ last.messages = <<>>
           /\ config = prev

C5_Witness ==
    /\ last.op = "Burn"
    /\ last.funds = <<>>
    /\ last.sender = prev.manager
    /\ prev.denoms # <<>>

\* C6: TransferAdmin by the manager takes a tracked denom out of config.denoms
\* and keeps every other entry in its order; for an untracked denom
\* config.denoms stays as it was.
C6_TransferAdminDenoms ==
    (last.op = "TransferAdmin" /\ last.sender = prev.manager)
        => /\ Contains(prev.denoms, last.msg.denom)
                => /\ ~Contains(config.denoms, last.msg.denom)
                   /\ IsWithout(config.denoms, prev.denoms, last.msg.denom)
           /\ ~Contains(prev.denoms, last.msg.denom)
                => config.denoms = prev.denoms

C6_Witness ==
    /\ last.op = "TransferAdmin"
    /\ last.sender = prev.manager
    /\ Count(prev.denoms, last.msg.denom) = 2
    /\ Len(config.denoms) = 2

\* C7: every TransferAdmin by the manager emits exactly one ChangeAdmin message
\* naming the denom and the new admin, tracked or not; the same call applied to
\* the Config the first one left emits it again and changes config.denoms no
\* further.
C7_ChangeAdminAlways ==
    (last.op = "TransferAdmin" /\ last.sender = prev.manager)
        => /\ last.err = ""
           /\ last.messages = <<ChangeAdmin(last.msg.denom, last.msg.new_address)>>
           /\ LET again == execute_transfer_admin(config,
                                [sender |-> last.sender, funds |-> <<>>],
                                last.msg.denom, last.msg.new_address)
              IN  /\ again.err = ""
                  /\ again.messages = last.messages
                  /\ again.config.denoms = config.denoms

C7_Witness ==
    /\ last.op = "TransferAdmin"
    /\ last.sender = prev.manager
    /\ Contains(prev.denoms, last.msg.denom)
    /\ config.denoms # prev.denoms
    /\ last.messages # <<>>

\* C8: after a successful instantiate and any sequence of operations neither
\* allowed_mint_addresses nor denoms holds a duplicate entry.
C8_NoDuplicates ==
    phase = "ready"
        => /\ NoDuplicates(config.allowed_mint_addresses)
           /\ NoDuplicates(config.denoms)

\* C9: Mint by a whitelisted caller succeeds and emits one MintTokens per coin
\* of the request, in request order, each to the recipient with the coin's
\* denom and amount unchanged, zero amounts and untracked denoms included.
C9_MintMessages ==
    (last.op = "Mint" /\ Contains(prev.allowed_mint_addresses, last.sender))
        => /\ last.err = ""
           /\ Len(last.messages) = Len(last.msg.denom)
           /\ \A i \in 1..Len(last.msg.denom) :
                  last.messages[i] = MintTokens(last.msg.denom[i].denom,
                                                last.msg.denom[i].amount,
                                                last.msg.address)

C9_Witness ==
    /\ last.op = "Mint"
    /\ last.err = ""
    /\ Len(last.msg.denom) = 2
    /\ last.msg.denom[1].amount = 0
    /\ last.msg.denom[2].amount # 0
    /\ ~Contains(prev.denoms, last.msg.denom[1].denom)
    /\ last.msg.denom[1].denom # last.msg.denom[2].denom

\* C10: AddWhitelist(L) and AddDenom(L) by the manager are idempotent: the same
\* call applied to the Config the first application left succeeds and leaves
\* that Config as it is, and an entry already present is accepted without
\* error and gets no second copy.
C10_AddIdempotent ==
    /\ (last.op = "AddWhitelist" /\ last.sender = prev.manager)
        => /\ last.err = ""
           /\ execute_add_whitelist(config, [sender |-> last.sender, funds |-> <<>>],
                                    last.msg.addresses).config = config
           /\ \A x \in Addrs :
                  Contains(prev.allowed_mint_addresses, x)
                      => Count(config.allowed_mint_addresses, x)
                             = Count(prev.allowed_mint_addresses, x)
    /\ (last.op = "AddDenom" /\ last.sender = prev.manager)
        => /\ last.err = ""
           /\ execute_add_denom(config, [sender |-> last.sender, funds |-> <<>>],
                                last.msg.denoms).config = config
           /\ \A x \in DenomStrs :
                  Contains(prev.denoms, x)
                      => Count(config.denoms, x) = Count(prev.denoms, x)

C10_Witness ==
    /\ last.op = "AddDenom"
    /\ last.sender = prev.manager
    /\ Len(last.msg.denoms) = 2
    /\ last.msg.denoms[1] = last.msg.denoms[2]
    /\ ~Contains(prev.denoms, last.msg.denoms[1])
    /\ Count(prev.denoms, "factory/juno1abc/test") = 2

\* C11: RemoveWhitelist(L) and RemoveDenom(L) by the manager, with no entry of
\* L in the list, succeed and leave the list (and the whole Config) as it was.
C11_RemoveAbsentNoOp ==
    /\ (/\ last.op = "RemoveWhitelist"
        /\ last.sender = prev.manager
        /\ \A i \in 1..Len(last.msg.addresses) :
               ~Contains(prev.allowed_mint_addresses, last.msg.addresses[i]))
        => /\ last.err = ""
           /\ config.allowed_mint_addresses = prev.allowed_mint_addresses
           /\ config = prev
    /\ (/\ last.op = "RemoveDenom"
        /\ last.sender = prev.manager
        /\ \A i \in 1..Len(last.msg.denoms) :
               ~Contains(prev.denoms, last.msg.denoms[i]))
        => /\ last.err = ""
           /\ config.denoms = prev.denoms
           /\ config = prev

C11_Witness ==
    /\ last.op = "RemoveDenom"
    /\ last.sender = prev.manager
    /\ Len(last.msg.denoms) = 2
    /\ last.msg.denoms[1] # last.msg.denoms[2]
    /\ \A i \in 1..Len(last.msg.denoms) : ~Contains(prev.denoms, last.msg.denoms[i])
    /\ Len(prev.denoms) = 2

\* C12: instantiate with a denoms list holding a string that does not begin
\* with factory/ fails with InvalidDenom and stores no Config; after a
\* successful instantiate every string of config.denoms begins with factory/.
C12_InstantiateDenoms ==
    last.op = "Instantiate"
        => /\ (\E i \in 1..Len(last.msg.denoms) :
                   ~StartsWith(last.msg.denoms[i], FactoryPrefix))
                => /\ last.err = "InvalidDenom"
                   /\ phase = "uninit"
                   /\ config = NoConfig
           /\ last.err = ""
                => /\ phase = "ready"
                   /\ config.denoms = last.msg.denoms
                   /\ \A i \in 1..Len(config.denoms) :
                          StartsWith(config.denoms[i], FactoryPrefix)

C12_Witness ==
    /\ last.op = "Instantiate"
    /\ Len(last.msg.denoms) = 2
    /\ StartsWith(last.msg.denoms[1], FactoryPrefix)
    /\ ~StartsWith(last.msg.denoms[2], FactoryPrefix)
    /\ last.err = "InvalidDenom"

\* C13: after a successful instantiate config.manager is the manager of the
\* InstantiateMsg when one is given and the sender otherwise.
C13_InstantiateManager ==
    (last.op = "Instantiate" /\ last.err = "")
        => /\ last.msg.manager # None => config.manager = last.msg.manager
           /\ last.msg.manager = None => config.manager = last.sender

C13_Witness ==
    /\ last.op = "Instantiate"
    /\ last.err = ""
    /\ last.msg.manager # None
    /\ last.msg.manager # last.sender

\* C14: once instantiated, config.manager is a non-empty validated address,
\* and no execute or query call, failed or not, by any caller changes it.
C14_ManagerFixed ==
    phase = "ready"
        => /\ config.manager # ""
           /\ config.manager # None
           /\ addr_validate(config.manager)
           /\ last.op \notin {"none", "Instantiate"} => config.manager = prev.manager

C14_Witness ==
    /\ last.op = "TransferAdmin"
    /\ last.err = ""
    /\ last.msg.new_address # prev.manager
    /\ config.denoms # prev.denoms

\* C15: a call that returns an error has written nothing to storage before the
\* error, and the stored state is what it was before the call.
C15_NoWriteBeforeError ==
    last.err # ""
        => /\ last.writes = <<>>
           /\ config = prev

\* C15, the part the execute and query entry points satisfy: their errors come
\* before any write.
C15_ExecuteErrorsWriteNothing ==
    (last.err # "" /\ last.op # "Instantiate")
        => /\ last.writes = <<>>
           /\ config = prev

\* C16: Burn, Mint and GetConfig leave the stored Config as it was, whether
\* they succeed or fail, and GetConfig answers with exactly the stored Config.
C16_ReadOnlyCalls ==
    last.op \in {"Burn", "Mint", "GetConfig"}
        => /\ config = prev
           /\ last.writes = <<>>
           /\ last.op = "GetConfig"
                => /\ last.err = ""
                   /\ last.data = config
                   /\ last.data = prev

C16_Witness ==
    /\ last.op = "GetConfig"
    /\ last.data.allowed_mint_addresses # <<>>
    /\ last.data.denoms # <<>>

\* C17: AddDenom by the manager accepts any string: every denom of the call,
\* with or without the factory/ prefix, is in config.denoms afterwards; and
\* Burn treats a coin of a tracked denom without the prefix as managed: it
\* emits BurnTokens for it and does not send it back.
C17_AddDenomUnvalidated ==
    /\ (last.op = "AddDenom" /\ last.sender = prev.manager)
        => /\ last.err = ""
           /\ \A i \in 1..Len(last.msg.denoms) :
                  Contains(config.denoms, last.msg.denoms[i])
    /\ (last.op = "Burn" /\ last.funds # <<>>)
        => \A i \in 1..Len(last.funds) :
               (/\ Contains(prev.denoms, last.funds[i].denom)
                /\ ~StartsWith(last.funds[i].denom, FactoryPrefix))
                   => /\ Contains(last.messages,
                                  BurnTokens(last.funds[i].denom, last.funds[i].amount,
                                             ContractAddr))
                      /\ \A k \in 1..Len(last.messages) :
                             last.messages[k].type = "Send"
                                 => ~Contains(last.messages[k].amount, last.funds[i])

C17_Witness ==
    /\ last.op = "Burn"
    /\ last.funds # <<>>
    /\ ~StartsWith(last.funds[1].denom, FactoryPrefix)
    /\ Contains(prev.denoms, last.funds[1].denom)
    /\ OfType(last.messages, "BurnTokens") # <<>>

\* C18: a successful configuration change touches its own field only:
\* AddWhitelist and RemoveWhitelist leave denoms and manager as they were and
\* emit no message; AddDenom, RemoveDenom and TransferAdmin leave
\* allowed_mint_addresses and manager as they were.
C18_OwnFieldOnly ==
    /\ (last.op \in {"AddWhitelist", "RemoveWhitelist"} /\ last.err = "")
        => /\ config.denoms = prev.denoms
           /\ config.manager = prev.manager
           /\ last.messages = <<>>
    /\ (last.op \in {"AddDenom", "RemoveDenom", "TransferAdmin"} /\ last.err = "")
        => /\ config.allowed_mint_addresses = prev.allowed_mint_addresses
           /\ config.manager = prev.manager

C18_Witness ==
    /\ last.op = "RemoveDenom"
    /\ last.err = ""
    /\ config.denoms # prev.denoms
    /\ prev.allowed_mint_addresses # <<>>

\* C19: manager and whitelist are independent privileges: Mint succeeds iff
\* the caller is in allowed_mint_addresses, so a manager outside the whitelist
\* is refused, and a whitelisted caller that is not the manager is refused
\* every manager-only operation.
C19_IndependentPrivileges ==
    /\ last.op = "Mint"
        => /\ last.err = "" <=> Contains(prev.allowed_mint_addresses, last.sender)
           /\ last.err # "" => last.err = "Unauthorized"
    /\ (/\ last.op \in ManagerOnly
        /\ Contains(prev.allowed_mint_addresses, last.sender)
        /\ last.sender # prev.manager)
        => /\ last.err = "Unauthorized"
           /\ config = prev

C19_Witness ==
    /\ last.op = "AddWhitelist"
    /\ Contains(prev.allowed_mint_addresses, last.sender)
    /\ last.sender # prev.manager
    /\ ~Contains(prev.allowed_mint_addresses, prev.manager)

\* C20: revocation is effective: from a successful RemoveWhitelist listing a
\* until a successful AddWhitelist listing a, a is in no position of
\* allowed_mint_addresses and every Mint by a fails with Unauthorized,
\* whatever whitelist instantiate stored (a listed twice included).
C20_RevocationEffective ==
    /\ \A a \in revoked : ~Contains(config.allowed_mint_addresses, a)
    /\ (last.op = "Mint" /\ last.sender \in revoked)
        => /\ last.err = "Unauthorized"
           /\ last.messages = <<>>

C20_Witness ==
    /\ last.op = "Mint"
    /\ last.sender \in revoked
    /\ last.sender # prev.manager
    /\ prev.allowed_mint_addresses # <<>>
    /\ last.msg.denom # <<>>

====
